---- MODULE Spec2Model ----
(***************************************************************************)
(* minecraft-server-hibernation: the background tasks of lib/progmgr       *)
(* (InterruptListener, UpdateManager, checkUpdate, deltaVersion) and the   *)
(* console reader of lib/input (GetInput).                                 *)
(*                                                                         *)
(* Go strings are sequences of one-character strings.  Go's int (64 bit)   *)
(* is a sign and a magnitude; the magnitude is a little-endian sequence of *)
(* limbs, because the encoded versions (up to 999 * 1000^4 here) do not    *)
(* fit the model checker's own integers.  Within the bounds below no sum   *)
(* reaches 2^63, so the 64-bit arithmetic of the program is exact.         *)
(***************************************************************************)
EXTENDS Integers, Sequences, FiniteSets, TLC

\* ------------------------------------------------------------------ strings

\* sub occurs in s at position i (1-based)
HasPrefixAt(s, sub, i) ==
    /\ i + Len(sub) - 1 <= Len(s)
    /\ \A j \in 1..Len(sub) : s[i + j - 1] = sub[j]

\* strings.HasPrefix
HasPrefix(s, sub) ==
    HasPrefixAt(s, sub, 1)

\* strings.Contains
Contains(s, sub) ==
    \E i \in 1..(Len(s) + 1) : HasPrefixAt(s, sub, i)

RECURSIVE ReplaceFrom(_, _, _, _)
ReplaceFrom(s, old, new, i) ==
    IF i > Len(s) THEN << >>
    ELSE IF HasPrefixAt(s, old, i)
         THEN new \o ReplaceFrom(s, old, new, i + Len(old))
         ELSE << s[i] >> \o ReplaceFrom(s, old, new, i + 1)

\* strings.ReplaceAll, for a non-empty old: the non-overlapping occurrences,
\* found left to right
ReplaceAll(s, old, new) ==
    ReplaceFrom(s, old, new, 1)

RECURSIVE SplitFrom(_, _, _, _)
SplitFrom(s, sep, i, cur) ==
    IF i > Len(s) THEN << cur >>
    ELSE IF HasPrefixAt(s, sep, i)
         THEN << cur >> \o SplitFrom(s, sep, i + Len(sep), << >>)
         ELSE SplitFrom(s, sep, i + 1, Append(cur, s[i]))

\* strings.Split, for a non-empty sep: always at least one part
Split(s, sep) ==
    SplitFrom(s, sep, 1, << >>)

DigitChars ==
    << "0", "1", "2", "3", "4", "5", "6", "7", "8", "9" >>

IsDigit(c) ==
    \E d \in 1..10 : DigitChars[d] = c

DigitVal(c) ==
    (CHOOSE d \in 1..10 : DigitChars[d] = c) - 1

RECURSIVE DecimalVal(_, _)
DecimalVal(s, acc) ==
    IF s = << >> THEN acc ELSE DecimalVal(Tail(s), acc * 10 + DigitVal(Head(s)))

\* strconv.Atoi: an optional sign, then one or more decimal digits.  err is
\* TRUE for a non-nil error.  (Range errors need 19 digits and more: none here.)
Atoi(s) ==
    LET signed == s # << >> /\ Head(s) \in {"+", "-"}
        digits == IF signed THEN Tail(s) ELSE s
    IN  IF digits = << >> \/ \E i \in 1..Len(digits) : ~IsDigit(digits[i])
        THEN [val |-> 0, err |-> TRUE]
        ELSE [val |-> IF signed /\ Head(s) = "-"
                      THEN 0 - DecimalVal(digits, 0)
                      ELSE DecimalVal(digits, 0),
              err |-> FALSE]

\* --------------------------------------------------------------- Go's int

LimbBase ==
    10 ^ 4

RECURSIVE NatOf(_)
NatOf(n) ==
    IF n = 0 THEN << >> ELSE << n % LimbBase >> \o NatOf(n \div LimbBase)

RECURSIVE NatNorm(_)
NatNorm(a) ==
    IF a # << >> /\ a[Len(a)] = 0 THEN NatNorm(SubSeq(a, 1, Len(a) - 1)) ELSE a

RECURSIVE NatAddC(_, _, _)
NatAddC(a, b, c) ==
    IF a = << >> /\ b = << >> THEN NatOf(c)
    ELSE LET x == IF a = << >> THEN 0 ELSE Head(a)
             y == IF b = << >> THEN 0 ELSE Head(b)
             r == IF a = << >> THEN << >> ELSE Tail(a)
             t == IF b = << >> THEN << >> ELSE Tail(b)
         IN  << (x + y + c) % LimbBase >> \o NatAddC(r, t, (x + y + c) \div LimbBase)

NatAdd(a, b) ==
    NatAddC(a, b, 0)

RECURSIVE NatSubB(_, _, _)
\* a - b - borrow, for a >= b + borrow
NatSubB(a, b, w) ==
    IF a = << >> THEN << >>
    ELSE LET y == (IF b = << >> THEN 0 ELSE Head(b)) + w
             t == IF b = << >> THEN << >> ELSE Tail(b)
         IN  IF Head(a) >= y
             THEN << Head(a) - y >> \o NatSubB(Tail(a), t, 0)
             ELSE << Head(a) + LimbBase - y >> \o NatSubB(Tail(a), t, 1)

NatSub(a, b) ==
    NatNorm(NatSubB(a, b, 0))

RECURSIVE NatMulC(_, _, _)
\* a * m + c, for 0 <= m < 10^5
NatMulC(a, m, c) ==
    IF a = << >> THEN NatOf(c)
    ELSE << (Head(a) * m + c) % LimbBase >>
         \o NatMulC(Tail(a), m, (Head(a) * m + c) \div LimbBase)

NatMul(a, m) ==
    NatNorm(NatMulC(a, m, 0))

RECURSIVE NatLessFrom(_, _, _)
NatLessFrom(a, b, i) ==
    IF i = 0 THEN FALSE
    ELSE IF a[i] # b[i] THEN a[i] < b[i]
    ELSE NatLessFrom(a, b, i - 1)

\* a < b, for normalised magnitudes
NatLess(a, b) ==
    IF Len(a) # Len(b) THEN Len(a) < Len(b) ELSE NatLessFrom(a, b, Len(a))

IntOf(n) ==
    IF n < 0 THEN [neg |-> TRUE, mag |-> NatOf(0 - n)]
    ELSE [neg |-> FALSE, mag |-> NatOf(n)]

IntAdd(x, y) ==
    IF x.neg = y.neg THEN [neg |-> x.neg, mag |-> NatAdd(x.mag, y.mag)]
    ELSE IF x.mag = y.mag THEN IntOf(0)
    ELSE IF NatLess(x.mag, y.mag) THEN [neg |-> y.neg, mag |-> NatSub(y.mag, x.mag)]
    ELSE [neg |-> x.neg, mag |-> NatSub(x.mag, y.mag)]

IntNeg(x) ==
    IF x.mag = << >> THEN x ELSE [neg |-> ~x.neg, mag |-> x.mag]

IntSub(x, y) ==
    IntAdd(x, IntNeg(y))

\* x * m for a small machine integer m, |m| < 10^5
IntMul(x, m) ==
    IF m = 0 \/ x.mag = << >> THEN IntOf(0)
    ELSE [neg |-> (x.neg # (m < 0)),
          mag |-> NatMul(x.mag, IF m < 0 THEN 0 - m ELSE m)]

\* -1, 0 or 1
IntSign(x) ==
    IF x.mag = << >> THEN 0 ELSE IF x.neg THEN 0 - 1 ELSE 1

IntLess(x, y) ==
    IntSign(IntSub(x, y)) < 0

RECURSIVE Pow1000(_)
\* int(math.Pow(1000, float64(e))): exact for e <= 6
Pow1000(e) ==
    IF e = 0 THEN IntOf(1) ELSE IntMul(Pow1000(e - 1), 1000)

\* ------------------------------------------------- the version comparator

\* "v"
VChar ==
    << "v" >>

\* "."
DotChar ==
    << "." >>

RECURSIVE digitizeFromOneBased(_, _, _)
\* A faulty digitizeFrom: the exponent counts the components from 1.
digitizeFromOneBased(versionSplit, n, versionInt) ==
    IF n >= Len(versionSplit) THEN [val |-> versionInt, err |-> FALSE]
    ELSE LET digitInt == Atoi(versionSplit[n + 1])
         IN  IF digitInt.err THEN [val |-> IntOf(0), err |-> TRUE]
             ELSE digitizeFromOneBased(versionSplit, n + 1,
                      IntAdd(versionInt,
                             IntMul(Pow1000(Len(versionSplit) - (n + 1)),
                                    digitInt.val)))

RECURSIVE digitizeFrom(_, _, _)
\* the loop of digitize from index n (0-based) on, versionInt so far
digitizeFrom(versionSplit, n, versionInt) ==
    IF n >= Len(versionSplit) THEN [val |-> versionInt, err |-> FALSE]
    ELSE LET digitInt == Atoi(versionSplit[n + 1])
         IN  IF digitInt.err THEN [val |-> IntOf(0), err |-> TRUE]
             ELSE digitizeFrom(versionSplit, n + 1,
                      IntAdd(versionInt,
                             IntMul(Pow1000(Len(versionSplit) - n), digitInt.val)))

\* digitize: "vx.x.x" to an integer
digitize(Version) ==
    digitizeFrom(Split(ReplaceAll(Version, VChar, << >>), DotChar), 0, IntOf(0))

\* deltaVersion: (onlineVersionInt - clientVersionInt, nil) or (0, error)
deltaVersion(onlineVersion, clientVersion) ==
    LET clientVersionInt == digitize(clientVersion)
        onlineVersionInt == digitize(onlineVersion)
    IN  IF clientVersionInt.err THEN [delta |-> IntOf(0), err |-> TRUE]
        ELSE IF onlineVersionInt.err THEN [delta |-> IntOf(0), err |-> TRUE]
        ELSE [delta |-> IntSub(onlineVersionInt.val, clientVersionInt.val),
              err |-> FALSE]

\* ------------------------------------------------ the version-check protocol

ERROR ==
    "ERROR"

UPDATED ==
    "UPDATED"

UPDATEAVAILABLE ==
    "UPDATEAVAILABLE"

UNOFFICIALVERSION ==
    "UNOFFICIALVERSION"

\* "error"
ErrorStr ==
    << "e", "r", "r", "o", "r" >>

\* clientProtV: "1"
ClientProtV ==
    << "1" >>

\* respHeader: "latest version: "
RespHeader ==
    << "l", "a", "t", "e", "s", "t", " ",
       "v", "e", "r", "s", "i", "o", "n", ":", " " >>

\* What the request of one checkUpdate call meets: fail is "request"
\* (http.NewRequest fails), "transport" (client.Do fails), "read" (ReadAll
\* fails) or "none", and body is what ReadAll returned.
FailKinds ==
    {"request", "transport", "read"}

\* A faulty checkUpdate: deltaVersion is given the versions the other way
\* round.
checkUpdateSwapped(clientProtV, clientVersion, respHeader, resp) ==
    IF resp.fail \in {"request", "transport"}
    THEN [status |-> ERROR, onlineVersion |-> ErrorStr, err |-> TRUE]
    ELSE IF resp.fail = "read" \/ ~Contains(resp.body, respHeader)
    THEN [status |-> ERROR, onlineVersion |-> ErrorStr, err |-> TRUE]
    ELSE LET onlineVersion == ReplaceAll(resp.body, respHeader, << >>)
             delta == deltaVersion(clientVersion, onlineVersion)
         IN  IF delta.err
             THEN [status |-> ERROR, onlineVersion |-> ErrorStr, err |-> TRUE]
             ELSE IF IntSign(delta.delta) > 0
             THEN [status |-> UPDATEAVAILABLE, onlineVersion |-> onlineVersion,
                   err |-> FALSE]
             ELSE IF IntSign(delta.delta) < 0
             THEN [status |-> UNOFFICIALVERSION, onlineVersion |-> onlineVersion,
                   err |-> FALSE]
             ELSE [status |-> UPDATED, onlineVersion |-> onlineVersion,
                   err |-> FALSE]

\* checkUpdate: (status, online version, error); err is TRUE for a non-nil error
checkUpdate(clientProtV, clientVersion, respHeader, resp) ==
    IF resp.fail \in {"request", "transport"}
    THEN [status |-> ERROR, onlineVersion |-> ErrorStr, err |-> TRUE]
    ELSE IF resp.fail = "read" \/ ~Contains(resp.body, respHeader)
    THEN [status |-> ERROR, onlineVersion |-> ErrorStr, err |-> TRUE]
    ELSE LET onlineVersion == ReplaceAll(resp.body, respHeader, << >>)
             delta == deltaVersion(onlineVersion, clientVersion)
         IN  IF delta.err
             THEN [status |-> ERROR, onlineVersion |-> ErrorStr, err |-> TRUE]
             ELSE IF IntSign(delta.delta) > 0
             THEN [status |-> UPDATEAVAILABLE, onlineVersion |-> onlineVersion,
                   err |-> FALSE]
             ELSE IF IntSign(delta.delta) < 0
             THEN [status |-> UNOFFICIALVERSION, onlineVersion |-> onlineVersion,
                   err |-> FALSE]
             ELSE [status |-> UPDATED, onlineVersion |-> onlineVersion,
                   err |-> FALSE]

\* ------------------------------------------------------------ input sets

\* the most components a generated version string has
MaxParts ==
    3

\* component strings: three numbers below 1000, and a letter
CompStrs ==
    { << "0" >>, << "1" >>, << "9", "9", "9" >>, << "x" >> }

RECURSIVE JoinFrom(_, _, _)
JoinFrom(parts, sep, i) ==
    IF i > Len(parts) THEN << >>
    ELSE IF i = Len(parts) THEN parts[i]
    ELSE parts[i] \o sep \o JoinFrom(parts, sep, i + 1)

\* strings.Join
Join(parts, sep) ==
    JoinFrom(parts, sep, 1)

\* "v" and 1..MaxParts components joined by dots, and a few strings of other
\* shapes: a component of 1000, an empty component, signed components, no
\* "v", a "v" inside, nothing after the "v"
VersionStrings ==
    { VChar \o Join(parts, DotChar) :
        parts \in UNION { [1..k -> CompStrs] : k \in 1..MaxParts } }
    \cup { << "v", "1", "0", "0", "0", ".", "0" >>,
           << "v", "1", ".", ".", "2" >>,
           << "v", "1", ".", "-", "2" >>,
           << "v", "-", "1" >>,
           << "v", "+", "1", ".", "0" >>,
           << "1", ".", "0" >>,
           << "v", "1", ".", "v", "2" >>,
           << "v", "1", ".", "2", ".", "3" >>,
           << "v" >> }

\* the components of a version string as the specification's data model
\* reads it: after one leading "v", the dot-separated parts
PartsOf(Version) ==
    Split(IF HasPrefix(Version, VChar) THEN Tail(Version) ELSE Version, DotChar)

IsNumeral(s) ==
    s # << >> /\ \A i \in 1..Len(s) : IsDigit(s[i])

\* the Version format: "v", then dot-separated non-negative integers
IsVersion(s) ==
    /\ HasPrefix(s, VChar)
    /\ \A i \in 1..Len(PartsOf(s)) : IsNumeral(PartsOf(s)[i])

\* the component values of a version string of the Version format
ComponentsOf(Version) ==
    [i \in 1..Len(PartsOf(Version)) |-> DecimalVal(PartsOf(Version)[i], 0)]

\* the daemon's own version is of the Version format
ClientVersions ==
    { s \in VersionStrings : IsVersion(s) }

\* response bodies: something or nothing, then the header or not, then a
\* version string
BodyPrefixes ==
    { << >>, << "v" >>, << "1", "." >> }

Bodies ==
    { pre \o hdr \o ver :
        pre \in BodyPrefixes, hdr \in { << >>, RespHeader }, ver \in VersionStrings }

Responses ==
    { [fail |-> "none", body |-> b] : b \in Bodies }
    \cup { [fail |-> f, body |-> b] :
             f \in FailKinds, b \in { << >>, RespHeader \o << "v", "1" >> } }

\* -------------------------------------------------------------- the state

VARIABLES
    \* the process
    exited,         \* "no", or the task that called os.Exit
    exitCode,       \* the status given to os.Exit; -1 while it was not called
    stdout,         \* what fmt.Print of the shutdown path has written
    \* InterruptListener
    sigChan,        \* signals pending in c (capacity 1)
    ilPc,           \* where InterruptListener stands
    ilErr,          \* err of StopMS(false); TRUE is non-nil
    statusRead,     \* servctrl.Stats.Status as the switch read it, or "unread"
    ilCalls,        \* the servctrl operations InterruptListener has called
    waitReturned,   \* ServTerm.Wg.Wait() has returned
    genAtRead,      \* the child instance that existed when the switch read
    ilLog,          \* what InterruptListener gave to the logger
    \* the server controller (servctrl)
    status,         \* Stats.Status
    childRunning,   \* the minecraft server process runs
    childGen,       \* how many server processes have been started
    wg,             \* the counter of ServTerm.Wg
    stopSent,       \* the stop command has reached the running server
    \* GetInput
    giPc,           \* "read", or "returned" after stdin ended
    giLine,         \* the last line read
    giCalls,        \* the controller operations the last line led to
    giErr,          \* errMsh of the operation the last line led to; TRUE is non-nil
    \* UpdateManager
    umPc,
    clientVersion,  \* the parameter of UpdateManager
    notifyUpdate,   \* config.ConfigRuntime.Msh.NotifyUpdate
    umStatus,       \* status, onlineVersion, err of the cycle's checkUpdate
    umOnlineVersion,
    umErr,
    checkedUpdateC, \* the tokens in CheckedUpdateC
    cycleChecks,    \* checkUpdate calls of the current cycle
    cycleGate,      \* NotifyUpdate as the current cycle read it: "on", "off", "unread"
    cyclePrints,    \* the console lines the current cycle printed
    cycleSpawns,    \* the notifyGameChat goroutines the current cycle started
    cycleSends,     \* the sends the current cycle tried: "sent" or "dropped"
    umLog,          \* what the current cycle gave to the logger
    umWake,         \* when UpdateManager goes on: checkUpdate or time.Sleep returns
    cycleStarts,    \* when each cycle called checkUpdate
    \* time, in seconds since the daemon started
    now,
    \* notifyGameChat
    ng,             \* the notifyGameChat goroutines that have not returned
    ngSpawned,      \* how many notifyGameChat goroutines were started
    isActive,       \* servctrl.ServTerm.IsActive
    \* a call of a pure function: its name, arguments and result
    fnCall

procVars == << exited, exitCode, stdout >>

ilVars == << sigChan, ilPc, ilErr, statusRead, ilCalls, waitReturned, genAtRead,
             ilLog >>

ctrlVars == << status, childRunning, childGen, wg, stopSent >>

giVars == << giPc, giLine, giCalls, giErr >>

umVars == << umPc, clientVersion, notifyUpdate, umStatus, umOnlineVersion, umErr,
             checkedUpdateC, cycleChecks, cycleGate, cyclePrints, cycleSpawns,
             cycleSends, umLog, umWake, cycleStarts >>

tmVars == << now, ng, ngSpawned, isActive >>

vars == << procVars, ilVars, ctrlVars, giVars, umVars, tmVars, fnCall >>

\* ------------------------------------------- the server controller (servctrl)

STATUS_OFFLINE ==
    "OFFLINE"

STATUS_STARTING ==
    "STARTING"

STATUS_ONLINE ==
    "ONLINE"

STATUS_STOPPING ==
    "STOPPING"

\* the most server processes started in one run
MaxStarts ==
    2

\* StartMS: starts the server process when it is offline; err otherwise
StartMS(err) ==
    \/ /\ status = STATUS_OFFLINE
       /\ childGen < MaxStarts
       /\ err = FALSE
       /\ status' = STATUS_STARTING
       /\ childRunning' = TRUE
       /\ childGen' = childGen + 1
       /\ wg' = wg + 1
       /\ UNCHANGED stopSent
    \/ /\ status # STATUS_OFFLINE
       /\ err = TRUE
       /\ UNCHANGED ctrlVars

\* StopMS(false): the stop command goes to an online server; err when the
\* server is not online or the command fails
StopMS(err) ==
    /\ \/ /\ status = STATUS_ONLINE
          /\ err = FALSE
          /\ stopSent' = TRUE
       \/ /\ err = TRUE
          /\ UNCHANGED stopSent
    /\ UNCHANGED << status, childRunning, childGen, wg >>

\* the starting server comes online
ChildOnline ==
    /\ exited = "no"
    /\ status = STATUS_STARTING
    /\ status' = STATUS_ONLINE
    /\ UNCHANGED << childRunning, childGen, wg, stopSent >>
    /\ UNCHANGED << procVars, ilVars, giVars, umVars, fnCall, tmVars >>

\* the server obeys the stop command
ChildStopping ==
    /\ exited = "no"
    /\ status = STATUS_ONLINE
    /\ stopSent
    /\ status' = STATUS_STOPPING
    /\ UNCHANGED << childRunning, childGen, wg, stopSent >>
    /\ UNCHANGED << procVars, ilVars, giVars, umVars, fnCall, tmVars >>

\* the server process ends (stopped, or on its own): Wg.Done(), OFFLINE
ChildExit ==
    /\ exited = "no"
    /\ childRunning
    /\ childRunning' = FALSE
    /\ wg' = wg - 1
    /\ status' = STATUS_OFFLINE
    /\ stopSent' = FALSE
    /\ UNCHANGED childGen
    /\ UNCHANGED << procVars, ilVars, giVars, umVars, fnCall, tmVars >>

\* ------------------------------------------------------- InterruptListener

\* the capacity of c
SigChanCap ==
    1

\* SIGHUP, SIGINT, SIGTERM or SIGQUIT arrives: signal.Notify's send does not
\* block, a signal that finds c full is lost
SignalArrives ==
    /\ exited = "no"
    /\ sigChan' = IF sigChan < SigChanCap THEN sigChan + 1 ELSE sigChan
    /\ UNCHANGED << ilPc, ilErr, statusRead, ilCalls, waitReturned, genAtRead, ilLog >>
    /\ UNCHANGED << procVars, ctrlVars, giVars, umVars, fnCall, tmVars >>

\* <-c
ILReceive ==
    /\ exited = "no"
    /\ ilPc = "recv"
    /\ sigChan > 0
    /\ sigChan' = sigChan - 1
    /\ ilPc' = "stop"
    /\ UNCHANGED << ilErr, statusRead, ilCalls, waitReturned, genAtRead, ilLog >>
    /\ UNCHANGED << procVars, ctrlVars, giVars, umVars, fnCall, tmVars >>

\* A faulty ILStop: a stop error sends the loop back to wait for a signal.
ILStopAbortsOnError ==
    /\ exited = "no"
    /\ ilPc = "stop"
    /\ \E err \in BOOLEAN :
          /\ StopMS(err)
          /\ ilErr' = err
          /\ ilLog' = IF err THEN Append(ilLog, "InterruptListener: StopMS error")
                       ELSE ilLog
          /\ ilPc' = IF err THEN "recv" ELSE "sleep"
    /\ ilCalls' = Append(ilCalls, << "StopMS", FALSE >>)
    /\ UNCHANGED << sigChan, statusRead, waitReturned, genAtRead >>
    /\ UNCHANGED << exited, exitCode, stdout, giVars, umVars, fnCall, tmVars >>

\* err := servctrl.StopMS(false), logged when non-nil
ILStop ==
    /\ exited = "no"
    /\ ilPc = "stop"
    /\ \E err \in BOOLEAN :
          /\ StopMS(err)
          /\ ilErr' = err
          /\ ilLog' = IF err THEN Append(ilLog, "InterruptListener: StopMS error")
                       ELSE ilLog
    /\ ilCalls' = Append(ilCalls, << "StopMS", FALSE >>)
    /\ ilPc' = "sleep"
    /\ UNCHANGED << sigChan, statusRead, waitReturned, genAtRead >>
    /\ UNCHANGED << exited, exitCode, stdout, giVars, umVars, fnCall, tmVars >>

\* time.Sleep(time.Second)
ILSleep ==
    /\ exited = "no"
    /\ ilPc = "sleep"
    /\ ilPc' = "switch"
    /\ UNCHANGED << sigChan, ilErr, statusRead, ilCalls, waitReturned, genAtRead,
                    ilLog >>
    /\ UNCHANGED << procVars, ctrlVars, giVars, umVars, fnCall, tmVars >>

\* A faulty SwitchCase: no case for STATUS_STOPPING.
SwitchCaseNoStopping(s) ==
    IF s = STATUS_OFFLINE THEN "STATUS_OFFLINE" ELSE "default"

\* A faulty SwitchCase: STATUS_OFFLINE is taken as STATUS_STOPPING.
SwitchCaseOfflineWaits(s) ==
    IF s \in {STATUS_STOPPING, STATUS_OFFLINE} THEN "STATUS_STOPPING" ELSE "default"

\* the case the switch takes for a status value
SwitchCase(s) ==
    IF s = STATUS_STOPPING THEN "STATUS_STOPPING"
    ELSE IF s = STATUS_OFFLINE THEN "STATUS_OFFLINE"
    ELSE "default"

\* switch servctrl.Stats.Status, up to the call of Wg.Wait()
ILSwitch ==
    /\ exited = "no"
    /\ ilPc = "switch"
    /\ statusRead' = status
    /\ genAtRead' = childGen
    /\ IF SwitchCase(status) = "STATUS_STOPPING"
       THEN /\ ilLog' = Append(ilLog, "InterruptListener: waiting for minecraft server terminal to exit")
            /\ ilCalls' = Append(ilCalls, << "Wg.Wait" >>)
            /\ ilPc' = "wait"
       ELSE IF SwitchCase(status) = "STATUS_OFFLINE"
       THEN /\ ilLog' = Append(ilLog, "InterruptListener: minecraft server terminal already exited")
            /\ ilPc' = "exit"
            /\ UNCHANGED ilCalls
       ELSE /\ ilLog' = Append(ilLog, "InterruptListener: stop command does not seem to be stopping server")
            /\ ilPc' = "exit"
            /\ UNCHANGED ilCalls
    /\ UNCHANGED << sigChan, ilErr, waitReturned >>
    /\ UNCHANGED << exited, exitCode, stdout, ctrlVars, giVars, umVars, fnCall, tmVars >>

\* A faulty ILWaitReturn: the wait does not block.
ILWaitReturnNoBlock ==
    /\ exited = "no"
    /\ ilPc = "wait"
    /\ waitReturned' = TRUE
    /\ ilPc' = "exit"
    /\ UNCHANGED << sigChan, ilErr, statusRead, ilCalls, genAtRead, ilLog >>
    /\ UNCHANGED << procVars, ctrlVars, giVars, umVars, fnCall, tmVars >>

\* servctrl.ServTerm.Wg.Wait() returns: the counter is zero
ILWaitReturn ==
    /\ exited = "no"
    /\ ilPc = "wait"
    /\ wg = 0
    /\ waitReturned' = TRUE
    /\ ilPc' = "exit"
    /\ UNCHANGED << sigChan, ilErr, statusRead, ilCalls, genAtRead, ilLog >>
    /\ UNCHANGED << procVars, ctrlVars, giVars, umVars, fnCall, tmVars >>

\* A faulty ILExit: the process ends with status 1.
ILExitStatusOne ==
    /\ exited = "no"
    /\ ilPc = "exit"
    /\ stdout' = Append(stdout, "exiting msh")
    /\ exited' = "InterruptListener"
    /\ exitCode' = 1
    /\ ilPc' = "done"
    /\ UNCHANGED << sigChan, ilErr, statusRead, ilCalls, waitReturned, genAtRead,
                    ilLog >>
    /\ UNCHANGED << ctrlVars, giVars, umVars, fnCall, tmVars >>

\* fmt.Print("exiting msh"); os.Exit(0)
ILExit ==
    /\ exited = "no"
    /\ ilPc = "exit"
    /\ stdout' = Append(stdout, "exiting msh")
    /\ exited' = "InterruptListener"
    /\ exitCode' = 0
    /\ ilPc' = "done"
    /\ UNCHANGED << sigChan, ilErr, statusRead, ilCalls, waitReturned, genAtRead,
                    ilLog >>
    /\ UNCHANGED << ctrlVars, giVars, umVars, fnCall, tmVars >>

\* ---------------------------------------------------------------- GetInput

Space ==
    << " " >>

RECURSIVE CollapseSpaces(_)
\* for strings.Contains(line, "  ") { line = strings.ReplaceAll(line, "  ", " ") }
CollapseSpaces(line) ==
    IF Contains(line, Space \o Space)
    THEN CollapseSpaces(ReplaceAll(line, Space \o Space, Space))
    ELSE line

\* the words of a line: line ends and tabs replaced, runs of spaces
\* collapsed, split at the spaces
LineSplit(line) ==
    Split(CollapseSpaces(
              ReplaceAll(ReplaceAll(ReplaceAll(line, << "\n" >>, << >>),
                                    << "\r" >>, << >>),
                         << "\t" >>, Space)),
          Space)

WordMsh ==
    << "m", "s", "h" >>

WordMine ==
    << "m", "i", "n", "e" >>

WordStart ==
    << "s", "t", "a", "r", "t" >>

WordFreeze ==
    << "f", "r", "e", "e", "z", "e" >>

WordExit ==
    << "e", "x", "i", "t" >>

\* the lines stdin delivers, each with its line end
InputLines ==
    { << "m", "s", "h", " ", "s", "t", "a", "r", "t", "\n" >>,
      << "m", "s", "h", " ", "f", "r", "e", "e", "z", "e", "\n" >>,
      << "m", "s", "h", " ", "e", "x", "i", "t", "\n" >>,
      << "m", "s", "h", "\n" >>,
      << "m", "s", "h", " ", "s", "t", "o", "p", "\n" >>,
      << "m", "i", "n", "e", "\n" >>,
      << "m", "i", "n", "e", "\t", "s", "a", "y", " ", " ", "h", "i", "\r", "\n" >>,
      << "m", "i", "n", "e", " ", "\n" >>,
      << "h", "e", "l", "l", "o", "\n" >>,
      << " ", "m", "s", "h", " ", "e", "x", "i", "t", "\n" >> }

\* one line read and handled: the body of the loop for err == nil.  What
\* the branches give to the logger is left out.
GetInputLine ==
    /\ exited = "no"
    /\ giPc = "read"
    /\ \E line \in InputLines :
        LET lineSplit == LineSplit(line)
        IN  /\ giLine' = line
            /\ IF lineSplit[1] = WordMsh
               THEN IF Len(lineSplit) < 2
                    THEN /\ giCalls' = << >>
                         /\ giErr' = FALSE
                         /\ UNCHANGED << ctrlVars, procVars >>
                    ELSE IF lineSplit[2] = WordStart
                    THEN /\ \E err \in BOOLEAN : StartMS(err) /\ giErr' = err
                         /\ giCalls' = << << "StartMS" >> >>
                         /\ UNCHANGED procVars
                    ELSE IF lineSplit[2] = WordFreeze
                    THEN /\ \E err \in BOOLEAN : StopMS(err) /\ giErr' = err
                         /\ giCalls' = << << "StopMS", FALSE >> >>
                         /\ UNCHANGED procVars
                    ELSE IF lineSplit[2] = WordExit
                    THEN /\ \E err \in BOOLEAN : StopMS(err) /\ giErr' = err
                         /\ giCalls' = << << "StopMS", FALSE >> >>
                         /\ exited' = "GetInput"
                         /\ exitCode' = 0
                         /\ UNCHANGED stdout
                    ELSE /\ giCalls' = << >>
                         /\ giErr' = FALSE
                         /\ UNCHANGED << ctrlVars, procVars >>
               ELSE IF lineSplit[1] = WordMine
               THEN IF Len(lineSplit) < 2
                    THEN /\ giCalls' = << >>
                         /\ giErr' = FALSE
                         /\ UNCHANGED << ctrlVars, procVars >>
                    ELSE IF status # STATUS_ONLINE
                    THEN /\ giCalls' = << >>
                         /\ giErr' = FALSE
                         /\ UNCHANGED << ctrlVars, procVars >>
                    ELSE /\ giCalls' = << << "Execute",
                                            Join(Tail(lineSplit), Space) >> >>
                         /\ \E err \in BOOLEAN : giErr' = err
                         /\ UNCHANGED << ctrlVars, procVars >>
               ELSE /\ giCalls' = << >>
                    /\ giErr' = FALSE
                    /\ UNCHANGED << ctrlVars, procVars >>
    /\ UNCHANGED << giPc, ilVars, umVars, fnCall, tmVars >>

\* reader.ReadString fails: at io.EOF GetInput returns, at another error it
\* reads again
GetInputReadError ==
    /\ exited = "no"
    /\ giPc = "read"
    /\ \E eof \in BOOLEAN : giPc' = IF eof THEN "returned" ELSE "read"
    /\ giCalls' = << >>
    /\ giErr' = FALSE
    /\ UNCHANGED << giLine, procVars, ilVars, ctrlVars, umVars, fnCall, tmVars >>

\* ----------------------------------------------------------- UpdateManager

\* the capacity of CheckedUpdateC
CheckedUpdateCCap ==
    1

\* deltaT, 4 * time.Hour, in seconds
DeltaT ==
    14400

\* 20 * time.Minute, in seconds
NotifyEvery ==
    1200

\* the Timeout of the http.Client, 4 * time.Second, in seconds
ClientTimeout ==
    4

\* how long checkUpdate takes: no time, or until the timeout
CheckDurations ==
    { 0, ClientTimeout }

\* the most cycles UpdateManager runs
MaxCycles ==
    2

\* the versions the daemon is run as
PollClientVersions ==
    { << "v", "1", ".", "0" >>, << "v", "0", ".", "1", ".", "0" >> }

\* what the version endpoint answers, or fails to
PollResponses ==
    { [fail |-> "none", body |-> b] :
        b \in { RespHeader \o << "v", "1", ".", "0" >>,
                RespHeader \o << "v", "1", ".", "1" >>,
                RespHeader \o << "v", "0", ".", "9", "9", "9" >>,
                RespHeader \o << "v", "1", ".", "x" >>,
                << "v", "1", ".", "1" >>,
                << "1", "." >> \o RespHeader \o << "v", "1", ".", "1" >> } }
    \cup { [fail |-> f, body |-> << >>] : f \in FailKinds }

\* the top of the loop, once the sleep of the cycle before is over:
\* logger.Logln("checking version..."), checkUpdate, and the error logged
UMCheck ==
    /\ umPc = "check"
    /\ now >= umWake
    /\ Len(cycleStarts) < MaxCycles
    /\ cycleStarts' = Append(cycleStarts, now)
    /\ \E elapsed \in CheckDurations : umWake' = now + elapsed
    /\ \E resp \in PollResponses :
        LET r == checkUpdate(ClientProtV, clientVersion, RespHeader, resp)
        IN  /\ umStatus' = r.status
            /\ umOnlineVersion' = r.onlineVersion
            /\ umErr' = r.err
            /\ umLog' = IF r.err THEN << "checking version...", "UpdateManager: error" >>
                        ELSE << "checking version..." >>
    /\ cycleChecks' = 1
    /\ cycleGate' = "unread"
    /\ cyclePrints' = << >>
    /\ cycleSpawns' = << >>
    /\ cycleSends' = << >>
    /\ umPc' = "notify"
    /\ UNCHANGED << clientVersion, notifyUpdate, checkedUpdateC >>
    /\ UNCHANGED << procVars, ilVars, ctrlVars, giVars, fnCall, tmVars >>

\* "*** msh (" + onlineVersion + ") is now available: visit github to update! ***"
Notification(onlineVersion) ==
    << "*** msh (", onlineVersion, ") is now available: visit github to update! ***" >>

\* what the switch on status prints
NotifyPrints(st, onlineVersion) ==
    IF st = UPDATED
    THEN << << "*** msh (", clientVersion, ") is updated ***" >> >>
    ELSE IF st = UPDATEAVAILABLE
    THEN << Notification(onlineVersion) >>
    ELSE IF st = UNOFFICIALVERSION
    THEN << << "*** msh (", clientVersion, ") is running an unofficial release ***" >> >>
    ELSE << >>

\* A faulty NotifySpawns: the case UNOFFICIALVERSION starts a goroutine too.
NotifySpawnsUnofficialToo(st, onlineVersion) ==
    IF st \in {UPDATEAVAILABLE, UNOFFICIALVERSION}
    THEN << [deltaNotification |-> NotifyEvery, deltaToEnd |-> DeltaT,
             notificationString |-> Notification(onlineVersion)] >>
    ELSE << >>

\* the goroutines the switch on status starts
NotifySpawns(st, onlineVersion) ==
    IF st = UPDATEAVAILABLE
    THEN << [deltaNotification |-> NotifyEvery, deltaToEnd |-> DeltaT,
             notificationString |-> Notification(onlineVersion)] >>
    ELSE << >>

\* a notifyGameChat goroutine as the go statement leaves it: not yet run
NewGoroutine(call, id) ==
    [id |-> id, pc |-> "start",
     deltaNotification |-> call.deltaNotification,
     deltaToEnd |-> call.deltaToEnd,
     notificationString |-> call.notificationString,
     startT |-> 0, endT |-> 0, wake |-> now,
     ticks |-> 0, actives |-> 0, sends |-> 0,
     errSeen |-> FALSE, sentInactive |-> FALSE]

\* go notifyGameChat(...) for each of the calls
Go(calls) ==
    /\ ng' = ng \o [k \in 1..Len(calls) |-> NewGoroutine(calls[k], ngSpawned + k)]
    /\ ngSpawned' = ngSpawned + Len(calls)

\* A faulty UMNotify: the switch on status is not under the NotifyUpdate test.
UMNotifyNoGate ==
    /\ umPc = "notify"
    /\ now >= umWake
    /\ cycleGate' = IF notifyUpdate THEN "on" ELSE "off"
    /\ cyclePrints' = cyclePrints \o NotifyPrints(umStatus, umOnlineVersion)
    /\ cycleSpawns' = cycleSpawns \o NotifySpawns(umStatus, umOnlineVersion)
    /\ Go(NotifySpawns(umStatus, umOnlineVersion))
    /\ umPc' = "signal"
    /\ UNCHANGED << clientVersion, notifyUpdate, umStatus, umOnlineVersion, umErr,
                    checkedUpdateC, cycleChecks, cycleSends, umLog, umWake,
                    cycleStarts >>
    /\ UNCHANGED << procVars, ilVars, ctrlVars, giVars, fnCall, now, isActive >>

\* checkUpdate has returned:
\* if config.ConfigRuntime.Msh.NotifyUpdate { switch status { ... } }
UMNotify ==
    /\ umPc = "notify"
    /\ now >= umWake
    /\ cycleGate' = IF notifyUpdate THEN "on" ELSE "off"
    /\ IF notifyUpdate
       THEN /\ cyclePrints' = cyclePrints \o NotifyPrints(umStatus, umOnlineVersion)
            /\ cycleSpawns' = cycleSpawns \o NotifySpawns(umStatus, umOnlineVersion)
            /\ Go(NotifySpawns(umStatus, umOnlineVersion))
       ELSE UNCHANGED << cyclePrints, cycleSpawns, ng, ngSpawned >>
    /\ umPc' = "signal"
    /\ UNCHANGED << clientVersion, notifyUpdate, umStatus, umOnlineVersion, umErr,
                    checkedUpdateC, cycleChecks, cycleSends, umLog, umWake,
                    cycleStarts >>
    /\ UNCHANGED << procVars, ilVars, ctrlVars, giVars, fnCall, now, isActive >>

\* A faulty UMSignal: a plain send, CheckedUpdateC <- true.
UMSignalBlocking ==
    /\ umPc = "signal"
    /\ checkedUpdateC < CheckedUpdateCCap
    /\ checkedUpdateC' = checkedUpdateC + 1
    /\ cycleSends' = Append(cycleSends, "sent")
    /\ umPc' = "sleep"
    /\ UNCHANGED << clientVersion, notifyUpdate, umStatus, umOnlineVersion, umErr,
                    cycleChecks, cycleGate, cyclePrints, cycleSpawns, umLog, umWake,
                    cycleStarts >>
    /\ UNCHANGED << procVars, ilVars, ctrlVars, giVars, fnCall, tmVars >>

\* select { case CheckedUpdateC <- true: default: }
UMSignal ==
    /\ umPc = "signal"
    /\ IF checkedUpdateC < CheckedUpdateCCap
       THEN /\ checkedUpdateC' = checkedUpdateC + 1
            /\ cycleSends' = Append(cycleSends, "sent")
       ELSE /\ UNCHANGED checkedUpdateC
            /\ cycleSends' = Append(cycleSends, "dropped")
    /\ umPc' = "sleep"
    /\ UNCHANGED << clientVersion, notifyUpdate, umStatus, umOnlineVersion, umErr,
                    cycleChecks, cycleGate, cyclePrints, cycleSpawns, umLog, umWake,
                    cycleStarts >>
    /\ UNCHANGED << procVars, ilVars, ctrlVars, giVars, fnCall, tmVars >>

\* A faulty UMSleep: the sleep lasts the notification interval.
UMSleepNotifyEvery ==
    /\ umPc = "sleep"
    /\ umWake' = now + NotifyEvery
    /\ umPc' = "check"
    /\ UNCHANGED << clientVersion, notifyUpdate, umStatus, umOnlineVersion, umErr,
                    checkedUpdateC, cycleChecks, cycleGate, cyclePrints, cycleSpawns,
                    cycleSends, umLog, cycleStarts >>
    /\ UNCHANGED << procVars, ilVars, ctrlVars, giVars, fnCall, tmVars >>

\* time.Sleep(deltaT) is called, and the loop starts again when it returns
UMSleep ==
    /\ umPc = "sleep"
    /\ umWake' = now + DeltaT
    /\ umPc' = "check"
    /\ UNCHANGED << clientVersion, notifyUpdate, umStatus, umOnlineVersion, umErr,
                    checkedUpdateC, cycleChecks, cycleGate, cyclePrints, cycleSpawns,
                    cycleSends, umLog, cycleStarts >>
    /\ UNCHANGED << procVars, ilVars, ctrlVars, giVars, fnCall, tmVars >>

\* a reader outside takes the token: <-CheckedUpdateC
ReaderReceive ==
    /\ checkedUpdateC > 0
    /\ checkedUpdateC' = checkedUpdateC - 1
    /\ UNCHANGED << umPc, clientVersion, notifyUpdate, umStatus, umOnlineVersion,
                    umErr, cycleChecks, cycleGate, cyclePrints, cycleSpawns,
                    cycleSends, umLog, umWake, cycleStarts >>
    /\ UNCHANGED << procVars, ilVars, ctrlVars, giVars, fnCall, tmVars >>

\* the configuration store sets NotifyUpdate
ConfigSet ==
    /\ notifyUpdate' = ~notifyUpdate
    /\ UNCHANGED << umPc, clientVersion, umStatus, umOnlineVersion, umErr,
                    checkedUpdateC, cycleChecks, cycleGate, cyclePrints, cycleSpawns,
                    cycleSends, umLog, umWake, cycleStarts >>
    /\ UNCHANGED << procVars, ilVars, ctrlVars, giVars, fnCall, tmVars >>

\* ----------------------------------------------------------- notifyGameChat

\* how long a call of servctrl.Execute can take, in seconds
ExecDelay ==
    1

\* the most notifyGameChat goroutines started directly
MaxBroadcasts ==
    2

\* the calls of notifyGameChat made directly: a total duration of two and of
\* three intervals, and one that is no multiple of the interval
NotifyCalls ==
    { [deltaNotification |-> NotifyEvery, deltaToEnd |-> d,
       notificationString |-> Notification(<< "v", "1", ".", "1" >>)] :
        d \in { 2 * NotifyEvery, 3 * NotifyEvery, 2 * NotifyEvery + 600 } }

\* go notifyGameChat(deltaNotification, deltaToEnd, notificationString)
GoNotifyGameChat ==
    /\ ng = << >>
    /\ ngSpawned < MaxBroadcasts
    /\ \E call \in NotifyCalls : Go(<< call >>)
    /\ UNCHANGED << procVars, ilVars, ctrlVars, giVars, umVars, fnCall, now, isActive >>

\* the goroutines without the i-th
RemoveAt(seq, i) ==
    SubSeq(seq, 1, i - 1) \o SubSeq(seq, i + 1, Len(seq))

\* endT := time.Now().Add(deltaToEnd)
NGStart ==
    /\ \E i \in 1..Len(ng) :
          /\ ng[i].pc = "start"
          /\ now >= ng[i].wake
          /\ ng' = [ng EXCEPT ![i].startT = now,
                              ![i].endT = now + ng[i].deltaToEnd,
                              ![i].pc = "test"]
    /\ UNCHANGED << procVars, ilVars, ctrlVars, giVars, umVars, fnCall, now,
                    ngSpawned, isActive >>

\* A faulty NGTest: the loop goes on while time.Now() is not after endT.
NGTestNotAfter ==
    /\ \E i \in 1..Len(ng) :
          /\ ng[i].pc = "test"
          /\ now >= ng[i].wake
          /\ ng' = IF now <= ng[i].endT
                   THEN [ng EXCEPT ![i].ticks = ng[i].ticks + 1, ![i].pc = "active"]
                   ELSE [ng EXCEPT ![i].pc = "return"]
    /\ UNCHANGED << procVars, ilVars, ctrlVars, giVars, umVars, fnCall, now,
                    ngSpawned, isActive >>

\* for time.Now().Before(endT): one more turn of the loop, or the end
NGTest ==
    /\ \E i \in 1..Len(ng) :
          /\ ng[i].pc = "test"
          /\ now >= ng[i].wake
          /\ ng' = IF now < ng[i].endT
                   THEN [ng EXCEPT ![i].ticks = ng[i].ticks + 1, ![i].pc = "active"]
                   ELSE [ng EXCEPT ![i].pc = "return"]
    /\ UNCHANGED << procVars, ilVars, ctrlVars, giVars, umVars, fnCall, now,
                    ngSpawned, isActive >>

\* A faulty NGActive: Execute is called whatever IsActive is.
NGActiveUnchecked ==
    /\ \E i \in 1..Len(ng) :
          /\ ng[i].pc = "active"
          /\ ng' = [ng EXCEPT ![i].pc = "exec"]
    /\ UNCHANGED << procVars, ilVars, ctrlVars, giVars, umVars, fnCall, now,
                    ngSpawned, isActive >>

\* if servctrl.ServTerm.IsActive
NGActive ==
    /\ \E i \in 1..Len(ng) :
          /\ ng[i].pc = "active"
          /\ ng' = IF isActive
                   THEN [ng EXCEPT ![i].actives = ng[i].actives + 1, ![i].pc = "exec"]
                   ELSE [ng EXCEPT ![i].pc = "sleep"]
    /\ UNCHANGED << procVars, ilVars, ctrlVars, giVars, umVars, fnCall, now,
                    ngSpawned, isActive >>

\* A faulty NGExecute: an error of Execute ends notifyGameChat.
NGExecuteReturnsOnError ==
    /\ \E i \in 1..Len(ng), err \in BOOLEAN, elapsed \in { 0, ExecDelay } :
          /\ ng[i].pc = "exec"
          /\ ng' = [ng EXCEPT ![i].sends = ng[i].sends + 1,
                              ![i].errSeen = ng[i].errSeen \/ err,
                              ![i].sentInactive = ng[i].sentInactive \/ ~isActive,
                              ![i].wake = now + elapsed,
                              ![i].pc = IF err THEN "return" ELSE "sleep"]
    /\ UNCHANGED << procVars, ilVars, ctrlVars, giVars, umVars, fnCall, now,
                    ngSpawned, isActive >>

\* _, err := servctrl.Execute("say "+notificationString, "notifyGameChat"),
\* the error logged; the call takes some time
NGExecute ==
    /\ \E i \in 1..Len(ng), err \in BOOLEAN, elapsed \in { 0, ExecDelay } :
          /\ ng[i].pc = "exec"
          /\ ng' = [ng EXCEPT ![i].sends = ng[i].sends + 1,
                              ![i].errSeen = ng[i].errSeen \/ err,
                              ![i].sentInactive = ng[i].sentInactive \/ ~isActive,
                              ![i].wake = now + elapsed,
                              ![i].pc = "sleep"]
    /\ UNCHANGED << procVars, ilVars, ctrlVars, giVars, umVars, fnCall, now,
                    ngSpawned, isActive >>

\* time.Sleep(deltaNotification) is called
NGSleep ==
    /\ \E i \in 1..Len(ng) :
          /\ ng[i].pc = "sleep"
          /\ now >= ng[i].wake
          /\ ng' = [ng EXCEPT ![i].wake = now + ng[i].deltaNotification,
                              ![i].pc = "test"]
    /\ UNCHANGED << procVars, ilVars, ctrlVars, giVars, umVars, fnCall, now,
                    ngSpawned, isActive >>

\* notifyGameChat returns and the goroutine is gone
NGReturn ==
    /\ \E i \in 1..Len(ng) :
          /\ ng[i].pc = "return"
          /\ ng' = RemoveAt(ng, i)
    /\ UNCHANGED << procVars, ilVars, ctrlVars, giVars, umVars, fnCall, now,
                    ngSpawned, isActive >>

\* the server terminal comes up or goes down
TermToggle ==
    /\ isActive' = ~isActive
    /\ UNCHANGED << procVars, ilVars, ctrlVars, giVars, umVars, fnCall, now, ng,
                    ngSpawned >>

\* ------------------------------------------------------------------- time

\* UpdateManager runs and has a cycle left
PollerRuns ==
    umPc # "off" /\ ~(umPc = "check" /\ Len(cycleStarts) >= MaxCycles)

\* the times at which the goroutines go on
Wakes ==
    { ng[i].wake : i \in 1..Len(ng) } \cup (IF PollerRuns THEN { umWake } ELSE { })

\* time passes, up to the next time at which a goroutine goes on; it does not
\* pass while a goroutine can take a step
Advance ==
    /\ Wakes # { }
    /\ \A w \in Wakes : w > now
    /\ now' = CHOOSE w \in Wakes : \A v \in Wakes : w <= v
    /\ UNCHANGED << procVars, ilVars, ctrlVars, giVars, umVars, fnCall, ng,
                    ngSpawned, isActive >>

\* ------------------------------------------------- calls of the pure functions

FnIdle ==
    [fn |-> "none", args |-> << >>, ret |-> << >>]

\* deltaVersion applied to two version strings
CallDeltaVersion ==
    /\ fnCall = FnIdle
    /\ \E onlineVersion \in VersionStrings, cv \in VersionStrings :
          fnCall' = [fn |-> "deltaVersion",
                     args |-> << onlineVersion, cv >>,
                     ret |-> deltaVersion(onlineVersion, cv)]
    /\ UNCHANGED << procVars, ilVars, ctrlVars, giVars, umVars, tmVars >>

\* digitize, the closure of deltaVersion, applied to a version string
CallDigitize ==
    /\ fnCall = FnIdle
    /\ \E Version \in VersionStrings :
          fnCall' = [fn |-> "digitize",
                     args |-> << Version >>,
                     ret |-> digitize(Version)]
    /\ UNCHANGED << procVars, ilVars, ctrlVars, giVars, umVars, tmVars >>

\* checkUpdate applied to the daemon's version and a response
CallCheckUpdate ==
    /\ fnCall = FnIdle
    /\ \E cv \in ClientVersions, resp \in Responses :
          fnCall' = [fn |-> "checkUpdate",
                     args |-> << ClientProtV, cv, RespHeader, resp >>,
                     ret |-> checkUpdate(ClientProtV, cv, RespHeader, resp)]
    /\ UNCHANGED << procVars, ilVars, ctrlVars, giVars, umVars, tmVars >>

FnReturn ==
    /\ fnCall # FnIdle
    /\ fnCall' = FnIdle
    /\ UNCHANGED << procVars, ilVars, ctrlVars, giVars, umVars, tmVars >>

\* ------------------------------------------------------- the specifications

InitWith(cv, nu, pc, active) ==
    /\ exited = "no"
    /\ exitCode = 0 - 1
    /\ stdout = << >>
    /\ sigChan = 0
    /\ ilPc = "recv"
    /\ ilErr = FALSE
    /\ statusRead = "unread"
    /\ ilCalls = << >>
    /\ waitReturned = FALSE
    /\ genAtRead = 0
    /\ ilLog = << >>
    /\ status = STATUS_OFFLINE
    /\ childRunning = FALSE
    /\ childGen = 0
    /\ wg = 0
    /\ stopSent = FALSE
    /\ giPc = "read"
    /\ giLine = << >>
    /\ giCalls = << >>
    /\ giErr = FALSE
    /\ umPc = pc
    /\ clientVersion = cv
    /\ notifyUpdate = nu
    /\ umStatus = "none"
    /\ umOnlineVersion = << >>
    /\ umErr = FALSE
    /\ checkedUpdateC = 0
    /\ cycleChecks = 0
    /\ cycleGate = "unread"
    /\ cyclePrints = << >>
    /\ cycleSpawns = << >>
    /\ cycleSends = << >>
    /\ umLog = << >>
    /\ umWake = 0
    /\ cycleStarts = << >>
    /\ now = 0
    /\ ng = << >>
    /\ ngSpawned = 0
    /\ isActive = active
    /\ fnCall = FnIdle

\* the daemon starts, run as some version, with the server offline
Init ==
    InitWith(CHOOSE cv \in PollClientVersions : Len(cv) = 4, TRUE, "check", FALSE)

PollerInit ==
    \E cv \in PollClientVersions, nu \in BOOLEAN : InitWith(cv, nu, "check", FALSE)

\* InterruptListener, GetInput and the server controller
Next ==
    \/ SignalArrives
    \/ ILReceive
    \/ ILStop
    \/ ILSleep
    \/ ILSwitch
    \/ ILWaitReturn
    \/ ILExit
    \/ GetInputLine
    \/ GetInputReadError
    \/ ChildOnline
    \/ ChildStopping
    \/ ChildExit

Spec ==
    Init /\ [][Next]_vars

\* UpdateManager, the reader of CheckedUpdateC and the configuration store
\* and the goroutines it starts, the server terminal down
PollerNext ==
    \/ UMCheck
    \/ UMNotify
    \/ UMSignal
    \/ UMSleep
    \/ ReaderReceive
    \/ ConfigSet
    \/ NGStart
    \/ NGTest
    \/ NGActive
    \/ NGSleep
    \/ NGReturn
    \/ Advance

PollerSpec ==
    PollerInit /\ [][PollerNext]_vars

\* checkUpdate and deltaVersion on the input sets
FnNext ==
    \/ CallDigitize
    \/ CallDeltaVersion
    \/ CallCheckUpdate
    \/ FnReturn

FnSpec ==
    Init /\ [][FnNext]_vars

\* the daemon runs with the server terminal up
ClockInit ==
    InitWith(CHOOSE cv \in PollClientVersions : Len(cv) = 4, TRUE, "check", TRUE)

\* UpdateManager and its notifyGameChat goroutines
ClockNext ==
    \/ UMCheck
    \/ UMNotify
    \/ UMSignal
    \/ UMSleep
    \/ NGStart
    \/ NGTest
    \/ NGActive
    \/ NGExecute
    \/ NGSleep
    \/ NGReturn
    \/ Advance

ClockSpec ==
    ClockInit /\ [][ClockNext]_vars

\* UpdateManager is not started
BroadcastInit ==
    InitWith(CHOOSE cv \in PollClientVersions : Len(cv) = 4, TRUE, "off", FALSE)

\* notifyGameChat started directly, and the server terminal
BroadcastNext ==
    \/ GoNotifyGameChat
    \/ NGStart
    \/ NGTest
    \/ NGActive
    \/ NGExecute
    \/ NGSleep
    \/ NGReturn
    \/ TermToggle
    \/ Advance

BroadcastSpec ==
    BroadcastInit /\ [][BroadcastNext]_vars

\* the scheduler runs every goroutine that can take a step, and time passes
LiveBroadcastSpec ==
    /\ BroadcastSpec
    /\ WF_vars(NGStart)
    /\ WF_vars(NGTest)
    /\ WF_vars(NGActive)
    /\ WF_vars(NGExecute)
    /\ WF_vars(NGSleep)
    /\ WF_vars(NGReturn)
    /\ WF_vars(Advance)

\* the scheduler runs InterruptListener: what it can do next, it does.  That
\* Wg.Wait() returns is not assumed here.
LiveSpec ==
    /\ Spec
    /\ WF_vars(ILStop)
    /\ WF_vars(ILSleep)
    /\ WF_vars(ILSwitch)
    /\ WF_vars(ILExit)

\* ---------------------------------------------------------------- the claims

\* InterruptListener has called ServTerm.Wg.Wait()
WaitInvoked ==
    \E i \in 1..Len(ilCalls) : ilCalls[i] = << "Wg.Wait" >>

\* InterruptListener stands at, or has made, the exit call
AtExitCall ==
    ilPc \in {"exit", "done"}

\* C1, as stated: when InterruptListener calls os.Exit the server process no
\* longer runs, whatever status the switch read.
C1_ExitOnlyAfterChildEnded ==
    exited = "InterruptListener" => ~childRunning

\* C1, amended: when InterruptListener calls os.Exit after the switch read
\* STOPPING or OFFLINE, the server process that existed at that read has ended
\* (one started since may run).  After any other status it exits at once.
C1_ExitAfterObservedChildEnded ==
    (exited = "InterruptListener" /\ statusRead \in {STATUS_STOPPING, STATUS_OFFLINE})
        => ~(childRunning /\ childGen = genAtRead)

C1_Witness ==
    /\ exited = "InterruptListener"
    /\ statusRead = STATUS_STOPPING
    /\ genAtRead = childGen
    /\ ~childRunning

\* C2: when the switch read STOPPING, InterruptListener reaches the exit call
\* only after ServTerm.Wg.Wait() has returned.
C2_StoppingExitAfterWait ==
    (statusRead = STATUS_STOPPING /\ AtExitCall) => waitReturned

C2_Witness ==
    /\ exited = "InterruptListener"
    /\ statusRead = STATUS_STOPPING
    /\ waitReturned

\* C3: when the switch read OFFLINE, InterruptListener goes on to the exit
\* call and never calls ServTerm.Wg.Wait().
C3_OfflineNoWait ==
    statusRead = STATUS_OFFLINE => (AtExitCall /\ ~WaitInvoked)

C3_Witness ==
    /\ exited = "InterruptListener"
    /\ statusRead = STATUS_OFFLINE
    /\ ~WaitInvoked

\* C4: once a signal is received the process ends, whether or not StopMS gave
\* an error and whatever status the switch read, provided that Wg.Wait()
\* returns whenever it was called after reading STOPPING.
C4_SignalLeadsToExit ==
    ((ilPc = "wait" /\ statusRead = STATUS_STOPPING) ~> (ilPc # "wait"))
        => ((ilPc # "recv") ~> (exited # "no"))

C4_Witness ==
    /\ exited = "InterruptListener"
    /\ ilErr
    /\ statusRead \in {STATUS_STARTING, STATUS_ONLINE}

\* C5: the send on CheckedUpdateC never blocks UpdateManager: at the send it
\* can always step on, whatever the readers do; the channel holds at most one
\* token; a send that finds a token pending is dropped and leaves the channel
\* as it was.
C5_SignalNeverBlocks ==
    /\ [](checkedUpdateC <= 1)
    /\ [](umPc = "signal" => ENABLED UMSignal)
    /\ [][(UMSignal /\ checkedUpdateC = 1)
            => (checkedUpdateC' = 1 /\ umPc' = "sleep"
                /\ cycleSends' = << "dropped" >>)]_vars

C5_Witness ==
    /\ umPc = "sleep"
    /\ checkedUpdateC = 1
    /\ cycleSends = << "dropped" >>

\* C6: a cycle that read NotifyUpdate as false prints nothing and starts no
\* notifyGameChat, and has still called checkUpdate once and tried the send
\* once, whatever checkUpdate returned.
C6_GateOffSilent ==
    (umPc = "sleep" /\ cycleGate = "off")
        => /\ cyclePrints = << >>
           /\ cycleSpawns = << >>
           /\ cycleChecks = 1
           /\ Len(cycleSends) = 1

C6_Witness ==
    /\ umPc = "sleep"
    /\ cycleGate = "off"
    /\ umStatus = UPDATEAVAILABLE
    /\ cycleChecks = 1
    /\ Len(cycleSends) = 1

\* C7: a cycle starts a notifyGameChat exactly when it read NotifyUpdate as
\* true and its status is UPDATEAVAILABLE, and never more than one; a cycle
\* whose status is ERROR starts none and prints nothing.
C7_SpawnIffGateAndUpdate ==
    umPc \in {"signal", "sleep"}
        => /\ (Len(cycleSpawns) >= 1)
                <=> (cycleGate = "on" /\ umStatus = UPDATEAVAILABLE)
           /\ Len(cycleSpawns) <= 1
           /\ umStatus = ERROR => (cycleSpawns = << >> /\ cyclePrints = << >>)

C7_Witness ==
    /\ umPc = "sleep"
    /\ Len(cycleSpawns) = 1
    /\ cycleSpawns[1].notificationString = Notification(umOnlineVersion)

\* C8, as stated: checkUpdate returns (ERROR, "error", non-nil error) for every
\* failed request and for every body that does not begin with the header.
C8_NoPrefixIsError ==
    fnCall.fn = "checkUpdate"
        => LET resp == fnCall.args[4]
           IN  (resp.fail # "none" \/ ~HasPrefix(resp.body, RespHeader))
                   => fnCall.ret = [status |-> ERROR, onlineVersion |-> ErrorStr,
                                    err |-> TRUE]

\* C9: for a body that is the header followed by an online version that
\* deltaVersion parses, checkUpdate returns, with a nil error and the body
\* without its header as the online version, UPDATEAVAILABLE, UNOFFICIALVERSION
\* or UPDATED as deltaVersion(online, local) is above, below or equal to 0.
C9_Classification ==
    fnCall.fn = "checkUpdate"
        => LET cv == fnCall.args[2]
               resp == fnCall.args[4]
               online == SubSeq(resp.body, Len(RespHeader) + 1, Len(resp.body))
               d == deltaVersion(online, cv)
           IN  (resp.fail = "none" /\ HasPrefix(resp.body, RespHeader) /\ ~d.err)
                   => /\ fnCall.ret.err = FALSE
                      /\ fnCall.ret.onlineVersion = online
                      /\ fnCall.ret.status =
                             IF IntSign(d.delta) > 0 THEN UPDATEAVAILABLE
                             ELSE IF IntSign(d.delta) < 0 THEN UNOFFICIALVERSION
                             ELSE UPDATED

C9_Witness ==
    /\ fnCall.fn = "checkUpdate"
    /\ fnCall.args[4].fail = "none"
    /\ fnCall.args[4].body = RespHeader \o << "v", "9", "9", "9", ".", "9", "9", "9" >>
    /\ fnCall.args[2] = << "v", "1", ".", "0" >>
    /\ fnCall.ret = [status |-> UPDATEAVAILABLE,
                     onlineVersion |-> << "v", "9", "9", "9", ".", "9", "9", "9" >>,
                     err |-> FALSE]

\* a precedes b in the lexicographic order of their components
LexLess(a, b) ==
    \/ \E i \in 1..Len(a) :
          /\ i <= Len(b)
          /\ a[i] < b[i]
          /\ \A j \in 1..(i - 1) : a[j] = b[j]
    \/ /\ Len(a) < Len(b)
       /\ \A j \in 1..Len(a) : a[j] = b[j]

\* a version string of the Version format with every component below 1000
IsSmallVersion(s) ==
    /\ IsVersion(s)
    /\ \A i \in 1..Len(ComponentsOf(s)) : ComponentsOf(s)[i] < 1000

\* C10, as stated: for versions of the Version format with components below
\* 1000, deltaVersion(online, local) is above 0 when local precedes online in
\* the lexicographic order of the components, below 0 when online precedes
\* local, and 0 for the same version.
C10_Monotonic ==
    (/\ fnCall.fn = "deltaVersion"
     /\ IsSmallVersion(fnCall.args[1])
     /\ IsSmallVersion(fnCall.args[2]))
        => LET online == ComponentsOf(fnCall.args[1])
               local == ComponentsOf(fnCall.args[2])
           IN  /\ ~fnCall.ret.err
               /\ LexLess(local, online) => IntSign(fnCall.ret.delta) > 0
               /\ LexLess(online, local) => IntSign(fnCall.ret.delta) < 0
               /\ online = local => IntSign(fnCall.ret.delta) = 0

RECURSIVE PlaceValueSum(_, _, _)
\* the sum over i = n..k of c[i] * 1000^(k - i + shift), k the length of c
PlaceValueSum(c, n, shift) ==
    IF n > Len(c) THEN IntOf(0)
    ELSE IntAdd(IntMul(Pow1000(Len(c) - n + shift), c[n]),
                PlaceValueSum(c, n + 1, shift))

\* C11, as stated: digitize gives the component at position n of k (counted
\* from 1) the place value 1000^(k-n), the last component the place value 1.
C11_LastPlaceValueOne ==
    (fnCall.fn = "digitize" /\ IsVersion(fnCall.args[1]))
        => fnCall.ret = [val |-> PlaceValueSum(ComponentsOf(fnCall.args[1]), 1, 0),
                         err |-> FALSE]

\* C11, amended: digitize gives the component at position n of k (counted
\* from 1) the place value 1000^(k-n+1), the last component the place value
\* 1000, and returns the sum of the components times their place values.
C11_LastPlaceValueThousand ==
    (fnCall.fn = "digitize" /\ IsVersion(fnCall.args[1]))
        => fnCall.ret = [val |-> PlaceValueSum(ComponentsOf(fnCall.args[1]), 1, 1),
                         err |-> FALSE]

C11_Witness ==
    /\ fnCall.fn = "digitize"
    /\ fnCall.args[1] = << "v", "1", ".", "2", ".", "3" >>
    /\ fnCall.ret = [val |-> IntOf(1002003000), err |-> FALSE]

\* some component of the string, after one leading "v", is not a non-negative
\* integer literal
HasBadComponent(Version) ==
    \E i \in 1..Len(PartsOf(Version)) : ~IsNumeral(PartsOf(Version)[i])

\* C12, as stated: deltaVersion returns (0, error) when a component of either
\* version is not a non-negative integer literal, be it a letter, empty or
\* signed, and checkUpdate then returns (ERROR, "error", error).
C12_BadComponentIsError ==
    /\ (/\ fnCall.fn = "deltaVersion"
        /\ (HasBadComponent(fnCall.args[1]) \/ HasBadComponent(fnCall.args[2])))
           => fnCall.ret = [delta |-> IntOf(0), err |-> TRUE]
    /\ fnCall.fn = "checkUpdate"
           => LET resp == fnCall.args[4]
                  online == SubSeq(resp.body, Len(RespHeader) + 1, Len(resp.body))
              IN  (/\ resp.fail = "none"
                   /\ HasPrefix(resp.body, RespHeader)
                   /\ HasBadComponent(online))
                      => fnCall.ret = [status |-> ERROR, onlineVersion |-> ErrorStr,
                                       err |-> TRUE]

\* C19, as stated: for versions of the Version format with components below
\* 1000, deltaVersion returns 0, and checkUpdate returns UPDATED, only when
\* the online and the local version have the same components.
C19_ZeroOnlyIfSameComponents ==
    /\ (/\ fnCall.fn = "deltaVersion"
        /\ IsSmallVersion(fnCall.args[1])
        /\ IsSmallVersion(fnCall.args[2])
        /\ ~fnCall.ret.err
        /\ IntSign(fnCall.ret.delta) = 0)
           => ComponentsOf(fnCall.args[1]) = ComponentsOf(fnCall.args[2])
    /\ fnCall.fn = "checkUpdate"
           => LET resp == fnCall.args[4]
                  online == SubSeq(resp.body, Len(RespHeader) + 1, Len(resp.body))
              IN  (/\ resp.fail = "none"
                   /\ HasPrefix(resp.body, RespHeader)
                   /\ IsSmallVersion(online)
                   /\ IsSmallVersion(fnCall.args[2])
                   /\ fnCall.ret.status = UPDATED)
                      => ComponentsOf(online) = ComponentsOf(fnCall.args[2])

\* C15: the process ends only through os.Exit(0) of InterruptListener or of
\* GetInput's "msh exit", and the task that ends it has called StopMS(false)
\* before, whether or not that call returned an error.
C15_ExitZeroAfterForcedStop ==
    /\ exited \in {"no", "InterruptListener", "GetInput"}
    /\ exited = "no" <=> exitCode = 0 - 1
    /\ exited # "no" => exitCode = 0
    /\ exited = "InterruptListener"
           => \E i \in 1..Len(ilCalls) : ilCalls[i] = << "StopMS", FALSE >>
    /\ exited = "GetInput" => giCalls = << << "StopMS", FALSE >> >>

C15_Witness ==
    /\ exited = "GetInput"
    /\ exitCode = 0
    /\ giErr
    /\ giCalls = << << "StopMS", FALSE >> >>

\* the line has no subcommand: no second word, or an empty one
SubcommandMissing(lineSplit) ==
    Len(lineSplit) < 2 \/ lineSplit[2] = << >>

\* C20, as stated: GetInput calls Execute only for a line whose first word is
\* "mine" and only when it read the status ONLINE; for a "mine" line with
\* another status, a line without subcommand, or a first word that is neither
\* "msh" nor "mine", it calls no controller operation and reads on.
C20_MineOnlyWhenOnline ==
    [][GetInputLine =>
        LET lineSplit == LineSplit(giLine')
        IN  /\ (\E i \in 1..Len(giCalls') : giCalls'[i][1] = "Execute")
                   => (status = STATUS_ONLINE /\ lineSplit[1] = WordMine)
            /\ (\/ (lineSplit[1] = WordMine /\ status # STATUS_ONLINE)
                \/ (lineSplit[1] \in {WordMsh, WordMine}
                       /\ SubcommandMissing(lineSplit))
                \/ lineSplit[1] \notin {WordMsh, WordMine})
                   => /\ giCalls' = << >>
                      /\ UNCHANGED ctrlVars
                      /\ giPc' = "read"
                      /\ exited' = "no"]_vars

\* the total duration of the goroutine is a multiple of its interval
WholeIntervals(t) ==
    t.deltaToEnd % t.deltaNotification = 0

\* Execute was called in every turn of the loop that read IsActive as true,
\* and in no other
SendsFollowActiveReads(t) ==
    /\ t.actives <= t.ticks
    /\ t.pc = "exec" => t.actives = t.sends + 1
    /\ t.pc # "exec" => t.actives = t.sends

\* C13, as stated: a notifyGameChat started at T0 with a total duration D that
\* is a multiple of the interval I makes exactly D/I turns of its loop, the
\* k-th at T0 + (k-1)*I, none at or after T0 + D, and calls Execute in exactly
\* the turns that read IsActive as true (twice for D = 2*I, always active).
C13_TicksOnSchedule ==
    \A i \in 1..Len(ng) :
        LET t == ng[i]
        IN  (WholeIntervals(t) /\ t.pc # "start")
               => /\ t.pc = "return" => t.ticks = t.deltaToEnd \div t.deltaNotification
                  /\ t.pc = "active"
                        => /\ now = t.startT + (t.ticks - 1) * t.deltaNotification
                           /\ now < t.startT + t.deltaToEnd
                  /\ SendsFollowActiveReads(t)

\* C13, amended: such a notifyGameChat makes exactly D/I turns of its loop,
\* the k-th at T0 + (k-1)*I at the earliest and before T0 + k*I (it is late by
\* the time the calls of Execute before it took), none at or after T0 + D, and
\* calls Execute in exactly the turns that read IsActive as true.
C13_TicksWithinIntervals ==
    \A i \in 1..Len(ng) :
        LET t == ng[i]
        IN  (WholeIntervals(t) /\ t.pc # "start")
               => /\ t.pc = "return" => t.ticks = t.deltaToEnd \div t.deltaNotification
                  /\ t.pc = "active"
                        => /\ now >= t.startT + (t.ticks - 1) * t.deltaNotification
                           /\ now < t.startT + t.ticks * t.deltaNotification
                           /\ now < t.startT + t.deltaToEnd
                  /\ SendsFollowActiveReads(t)

C13_Witness ==
    \E i \in 1..Len(ng) :
        /\ ng[i].pc = "return"
        /\ ng[i].deltaToEnd = 2 * NotifyEvery
        /\ ng[i].deltaNotification = NotifyEvery
        /\ ng[i].ticks = 2
        /\ ng[i].sends = 2
        /\ now > ng[i].endT

\* C14, as stated: notifyGameChat never calls Execute in a state in which
\* ServTerm.IsActive is false.
C14_ExecuteOnlyWhileActive ==
    \A i \in 1..Len(ng) : ~ng[i].sentInactive

\* C14, amended: notifyGameChat calls Execute only in a turn of the loop in
\* which it has read ServTerm.IsActive as true, once per such turn; the flag
\* may have been cleared between the read and the call.
C14_ExecuteOnlyAfterActiveRead ==
    \A i \in 1..Len(ng) :
        /\ ng[i].sends <= ng[i].actives
        /\ ng[i].actives <= ng[i].sends + 1
        /\ ng[i].pc = "exec" <=> ng[i].actives = ng[i].sends + 1

C14_Witness ==
    \E i \in 1..Len(ng) :
        /\ ng[i].sentInactive
        /\ ng[i].sends >= 1
        /\ ng[i].actives = ng[i].sends

\* C16: an error of Execute does not end notifyGameChat: after the call it
\* sleeps, it returns only when the deadline has passed and after all the
\* turns of the loop, and every notifyGameChat returns in the end.
C16_ErrorsDoNotEndBroadcaster ==
    /\ [][NGExecute
            => /\ Len(ng') = Len(ng)
               /\ \A i \in 1..Len(ng) : ng'[i] # ng[i] => ng'[i].pc = "sleep"]_vars
    /\ [](\A i \in 1..Len(ng) :
            ng[i].pc = "return"
               => /\ now >= ng[i].endT
                  /\ ng[i].ticks * ng[i].deltaNotification >= ng[i].deltaToEnd)
    /\ (ng # << >>) ~> (ng = << >>)

C16_Witness ==
    \E i \in 1..Len(ng) :
        /\ ng[i].pc = "return"
        /\ ng[i].errSeen
        /\ ng[i].ticks = 3
        /\ now >= ng[i].endT

\* C17, as stated: each cycle of UpdateManager starts exactly 4 hours after
\* the one before, and calls checkUpdate once.
C17_FixedPeriod ==
    /\ \A k \in 1..(Len(cycleStarts) - 1) :
          cycleStarts[k + 1] - cycleStarts[k] = DeltaT
    /\ umPc \in {"notify", "signal", "sleep"} => cycleChecks = 1

\* the goroutine may call Execute again
CanStillSend(t) ==
    \/ t.pc \in {"start", "active", "exec"}
    \/ t.pc = "test" /\ t.wake < t.endT
    \/ t.pc = "sleep" /\ t.wake + t.deltaNotification < t.endT

\* C18: once UpdateManager has started the notifyGameChat of a later cycle,
\* the one of an earlier cycle calls Execute no more, though it may not have
\* returned yet; at most two of them exist and at most one may still call
\* Execute.
C18_SendWindowsDisjoint ==
    /\ Len(ng) <= 2
    /\ \A i, j \in 1..Len(ng) : ng[i].id < ng[j].id => ~CanStillSend(ng[i])
    /\ Cardinality({ i \in 1..Len(ng) : CanStillSend(ng[i]) }) <= 1

C18_Witness ==
    /\ Len(ng) = 2
    /\ ng[1].id < ng[2].id
    /\ ng[1].pc \in {"test", "return"}
    /\ ng[1].sends = 12

====





